---- MODULE Spec2Model ----
(***************************************************************************)
(* Model of the tunnel server (control connections, connection registry,   *)
(* public HTTP relay), of the relay primitive transfer, and of the          *)
(* client-side forwarding proxy of go-http-tunnel.                          *)
(***************************************************************************)
EXTENDS Integers, Sequences, FiniteSets, TLC

\* ------------------------------------------------------------------ bounds
MaxConns == 2   \* control connections accepted
MaxBody == 1    \* bytes of a tunnelled HTTP response body
MaxRelay == 3   \* bytes of a response body in the relay specification
MaxLen == 2     \* bytes of a stream relayed by the forwarding proxy
MaxPlain == 3   \* bytes of a credentials text
MaxPubs == 2    \* connections accepted on the public listener
MaxErrs == 2    \* transient Accept errors of one listener
MaxOpts == 2    \* options in one keepalive option string

NoConn == 0
Conns == 1..MaxConns
Pubs == 1..MaxPubs
Byte == {0, 1}
Streams(max) == UNION {[1..n -> Byte] : n \in 0..max}
\* One stream of each length up to max, adjacent bytes differing.
Bodies(max) == {[i \in 1..n |-> i % 2] : n \in 0..max}

IsPrefix(s, t) == Len(s) <= Len(t) /\ SubSeq(t, 1, Len(s)) = s

\* ----------------------------------------------------------- configuration
\* ServerConfig.AllowedClients: the tenants, in configuration order.
AllowedClients ==
    << [ID |-> "X", Host |-> "a"],
       [ID |-> "V", Host |-> "bad host"],
       [ID |-> "U", Host |-> ""] >>

\* What peerID can yield for an accepted connection: a certificate id, or an
\* error ("nocert").  "Z" is a valid certificate no AllowedClient carries.
PeerIDs == {"X", "V", "U", "Z", "nocert"}

\* Host headers of public HTTP requests, as <<host>> or <<host, port>>.
RequestHosts == { <<"a">>, <<"a", "80">>, <<"c">>, <<"bad host">> }

Hosts == {AllowedClients[i].Host : i \in DOMAIN AllowedClients}
             \cup {hp[1] : hp \in RequestHosts}

VARIABLES
    connPool,   \* Server.connPool: host key -> physical connection (NoConn: no entry)
    conns,      \* per control connection: the handleClient goroutine and the conn
    req,        \* the public HTTP request being served: its ServeHTTP/proxyHTTP goroutine
    xf,         \* the running transfer calls (relay directions)
    ep,         \* the endpoints the transfers close
    lastAdd,    \* history: host -> connection of the latest Add not followed by Invalidate
    adds,       \* history: host -> connections whose Add succeeded, in order
    fwd,        \* the forwarding proxy: one Proxy call
    lst,        \* the accept loops: listenControl and listen on a public listener
    pubs,       \* per connection accepted on a public listener: its proxyConn goroutine
    config      \* the keepalive option string given to Config.Set and the Config it fills

vars == <<connPool, conns, req, xf, ep, lastAdd, adds, fwd, lst, pubs, config>>

\* ---------------------------------------------------------------- registry
\* connPool (the repository's pool is not among the sources; modelled from
\* the registry contract).
MalformedKey(host) == host = ""

newConnPool == [h \in Hosts |-> NoConn]

\* addHostConn: <<new pool, ok>>; last writer wins.
addHostConn(p, host, conn) ==
    IF MalformedKey(host) THEN <<p, FALSE>>
    ELSE <<[p EXCEPT ![host] = conn], TRUE>>

\* markHostDead: removes the entry for host if present.
markHostDead(p, host) == [p EXCEPT ![host] = NoConn]

\* GetClientConn, as used by the http2 transport of httpClient: the transport
\* bound to the connection registered for host, NoConn when there is none.
GetClientConn(p, host) == IF host \in DOMAIN p THEN p[host] ELSE NoConn

\* NewServer without t.ConnPool = p: httpClient resolves against a pool of
\* its own, which no control connection is ever added to.
httpClientPool_unset(p) == newConnPool

\* NewServer: t.ConnPool = p and httpClient = &http.Client{Transport: t}, so
\* httpClient resolves hosts against the pool handleClient adds to.
httpClientPool(p) == p

\* ------------------------------------------------------------------ helpers
\* url(host) = "https://" + host; http.NewRequest fails when it does not parse.
NewRequestOK(host) == host # "bad host"

trimPort(hostPort) == hostPort[1]

\* A checkID that accepts every certificate as the first AllowedClient.
checkID_first(id) ==
    IF AllowedClients = <<>> THEN 0 ELSE 1

\* checkID: index of the first AllowedClient with that ID, 0 when none.
checkID(id) ==
    LET m == {i \in DOMAIN AllowedClients : AllowedClients[i].ID = id}
    IN IF m = {} THEN 0 ELSE CHOOSE i \in m : \A j \in m : i <= j

\* -------------------------------------------------------------- transfer
XfIdle == [st |-> "idle", dst |-> <<"-", 0>>, src |-> <<"-", 0>>, data |-> <<>>,
           orig |-> <<>>, rd |-> <<>>, buf |-> <<>>, wr |-> <<>>,
           err |-> "none", eof |-> FALSE, held |-> FALSE]

\* A transfer call that has just been entered: data is what src will deliver.
\* held: the peer feeding src has not ended its stream yet, so a Read that
\* finds no data blocks instead of reporting end-of-stream.
XfNew(dst, src, data) ==
    [XfIdle EXCEPT !.st = "copy", !.dst = dst, !.src = src,
                   !.data = data, !.orig = data]

EpNew(hasCW, hasCR) ==
    [hasCW |-> hasCW, hasCR |-> hasCR, cw |-> FALSE, cr |-> FALSE, closed |-> FALSE]

\* A transfer that returns at once when the copy fails.
transferRead_errReturn(t) ==
    /\ xf[t].st = "copy" /\ xf[t].buf = <<>>
    /\ \/ \E k \in 1..Len(xf[t].data) :
             xf' = [xf EXCEPT ![t].buf = SubSeq(xf[t].data, 1, k),
                              ![t].rd = xf[t].rd \o SubSeq(xf[t].data, 1, k),
                              ![t].data = SubSeq(xf[t].data, k + 1, Len(xf[t].data))]
       \/ /\ xf[t].data = <<>>
          /\ ~xf[t].held
          /\ xf' = [xf EXCEPT ![t].eof = TRUE, ![t].st = "closeDst"]
       \/ xf' = [xf EXCEPT ![t].err = "read", ![t].st = "done"]
    /\ UNCHANGED <<connPool, conns, req, ep, lastAdd, adds, fwd, lst, pubs, config>>

\* io.Copy: src.Read fills the buffer, or reports end-of-stream or an error.
transferRead(t) ==
    /\ xf[t].st = "copy" /\ xf[t].buf = <<>>
    /\ \/ \E k \in 1..Len(xf[t].data) :
             xf' = [xf EXCEPT ![t].buf = SubSeq(xf[t].data, 1, k),
                              ![t].rd = xf[t].rd \o SubSeq(xf[t].data, 1, k),
                              ![t].data = SubSeq(xf[t].data, k + 1, Len(xf[t].data))]
       \/ /\ xf[t].data = <<>>
          /\ ~xf[t].held
          /\ xf' = [xf EXCEPT ![t].eof = TRUE, ![t].st = "closeDst"]
       \/ xf' = [xf EXCEPT ![t].err = "read", ![t].st = "closeDst"]
    /\ UNCHANGED <<connPool, conns, req, ep, lastAdd, adds, fwd, lst, pubs, config>>

\* An io.Copy that writes the buffer twice.
transferWrite_dup(t) ==
    /\ xf[t].st = "copy" /\ xf[t].buf # <<>>
    /\ \/ xf' = [xf EXCEPT ![t].wr = xf[t].wr \o xf[t].buf \o xf[t].buf, ![t].buf = <<>>]
       \/ \E nw \in 0..(Len(xf[t].buf) - 1) :
             xf' = [xf EXCEPT ![t].wr = xf[t].wr \o SubSeq(xf[t].buf, 1, nw),
                              ![t].buf = <<>>, ![t].err = "write",
                              ![t].st = "closeDst"]
    /\ UNCHANGED <<connPool, conns, req, ep, lastAdd, adds, fwd, lst, pubs, config>>

\* io.Copy: dst.Write of the buffer; a failed or short write ends the copy.
transferWrite(t) ==
    /\ xf[t].st = "copy" /\ xf[t].buf # <<>>
    /\ \/ xf' = [xf EXCEPT ![t].wr = xf[t].wr \o xf[t].buf, ![t].buf = <<>>]
       \/ \E nw \in 0..(Len(xf[t].buf) - 1) :
             xf' = [xf EXCEPT ![t].wr = xf[t].wr \o SubSeq(xf[t].buf, 1, nw),
                              ![t].buf = <<>>, ![t].err = "write",
                              ![t].st = "closeDst"]
    /\ UNCHANGED <<connPool, conns, req, ep, lastAdd, adds, fwd, lst, pubs, config>>

\* if d, ok := dst.(closeWriter); ok { d.CloseWrite() }
transferCloseDst(t) ==
    /\ xf[t].st = "closeDst"
    /\ xf' = [xf EXCEPT ![t].st = "closeSrc"]
    /\ ep' = IF ep[xf[t].dst].hasCW THEN [ep EXCEPT ![xf[t].dst].cw = TRUE] ELSE ep
    /\ UNCHANGED <<connPool, conns, req, lastAdd, adds, fwd, lst, pubs, config>>

\* if s, ok := src.(closeReader); ok { s.CloseRead() } else { src.Close() }
transferCloseSrc(t) ==
    /\ xf[t].st = "closeSrc"
    /\ xf' = [xf EXCEPT ![t].st = "done"]
    /\ ep' = IF ep[xf[t].src].hasCR THEN [ep EXCEPT ![xf[t].src].cr = TRUE]
             ELSE [ep EXCEPT ![xf[t].src].closed = TRUE]
    /\ UNCHANGED <<connPool, conns, req, lastAdd, adds, fwd, lst, pubs, config>>

transfer(t) ==
    \/ transferRead(t)
    \/ transferWrite(t)
    \/ transferCloseDst(t)
    \/ transferCloseSrc(t)

\* ------------------------------------------------------- control connections
ConnNew == [pc |-> "new", id |-> "-", client |-> 0, closed |-> FALSE,
            via |-> NoConn, probe |-> "none"]

ClientHost(c) == AllowedClients[conns[c].client].Host

\* An accept loop: running or returned, the transient Accept errors it has
\* seen, whether Accept reported the closed listener, and whether a
\* connection was accepted after a transient error.
LoopNew == [st |-> "running", errs |-> 0, closed |-> FALSE, late |-> FALSE]

LstNew == [l \in {"control", "public"} |-> LoopNew]

\* The loop goes on with a connection Accept returned.
Accepted(l) == [lst EXCEPT ![l].late = lst[l].late \/ lst[l].errs > 0]

\* Accept failed with an error other than that of a closed listener: it is
\* logged and the loop continues.
AcceptError(l) ==
    /\ lst[l].st = "running"
    /\ lst[l].errs < MaxErrs
    /\ lst' = [lst EXCEPT ![l].errs = @ + 1]

\* Accept failed with "use of closed network connection": the loop returns.
AcceptClosed(l) ==
    /\ lst[l].st = "running"
    /\ lst' = [lst EXCEPT ![l].closed = TRUE, ![l].st = "stopped"]

\* listenControl: Accept returns a connection, handleClient is spawned on it.
listenControl(c) ==
    /\ lst["control"].st = "running"
    /\ conns[c].pc = "new"
    /\ conns' = [conns EXCEPT ![c].pc = "accepted"]
    /\ lst' = Accepted("control")
    /\ UNCHANGED <<connPool, req, xf, ep, lastAdd, adds, fwd, pubs, config>>

\* A listenControl that returns on any Accept error.
listenControl_error_return ==
    /\ lst["control"].st = "running"
    /\ lst["control"].errs < MaxErrs
    /\ lst' = [lst EXCEPT !["control"].errs = @ + 1, !["control"].st = "stopped"]
    /\ UNCHANGED <<connPool, conns, req, xf, ep, lastAdd, adds, fwd, pubs, config>>

\* listenControl: Accept fails, the error is logged, continue.
listenControl_error ==
    /\ AcceptError("control")
    /\ UNCHANGED <<connPool, conns, req, xf, ep, lastAdd, adds, fwd, pubs, config>>

\* listenControl: Accept fails on the closed listener (Server.Close), return.
listenControl_closed ==
    /\ AcceptClosed("control")
    /\ UNCHANGED <<connPool, conns, req, xf, ep, lastAdd, adds, fwd, pubs, config>>

\* handleClient up to the Add: peerID, checkID, http.NewRequest(CONNECT, url(Host)).
handleClient_identify(c) ==
    /\ conns[c].pc = "accepted"
    /\ \E id \in PeerIDs :
       LET cl == checkID(id) IN
       \/ /\ id = "nocert"
          /\ conns' = [conns EXCEPT ![c].pc = "reject", ![c].id = id]
       \/ /\ id # "nocert" /\ cl = 0
          /\ conns' = [conns EXCEPT ![c].pc = "reject", ![c].id = id]
       \/ /\ id # "nocert" /\ cl # 0
          /\ ~NewRequestOK(AllowedClients[cl].Host)
          /\ conns' = [conns EXCEPT ![c].pc = "reject", ![c].id = id, ![c].client = cl]
       \/ /\ id # "nocert" /\ cl # 0
          /\ NewRequestOK(AllowedClients[cl].Host)
          /\ conns' = [conns EXCEPT ![c].pc = "add", ![c].id = id, ![c].client = cl]
    /\ UNCHANGED <<connPool, req, xf, ep, lastAdd, adds, fwd, lst, pubs, config>>

\* A handleClient that keeps the connection already registered for the host.
handleClient_add_keepFirst(c) ==
    /\ conns[c].pc = "add"
    /\ LET r == addHostConn(connPool, ClientHost(c), c) IN
       \/ /\ r[2]
          /\ connPool' = IF connPool[ClientHost(c)] # NoConn THEN connPool ELSE r[1]
          /\ lastAdd' = [lastAdd EXCEPT ![ClientHost(c)] = c]
          /\ adds' = [adds EXCEPT ![ClientHost(c)] = Append(@, c)]
          /\ conns' = [conns EXCEPT ![c].pc = "probe"]
       \/ /\ ~r[2]
          /\ conns' = [conns EXCEPT ![c].pc = "reject"]
          /\ UNCHANGED <<connPool, lastAdd, adds>>
    /\ UNCHANGED <<req, xf, ep, fwd, lst, pubs, config>>

\* handleClient: s.connPool.addHostConn(client.Host, conn).
handleClient_add(c) ==
    /\ conns[c].pc = "add"
    /\ LET r == addHostConn(connPool, ClientHost(c), c) IN
       \/ /\ r[2]
          /\ connPool' = r[1]
          /\ lastAdd' = [lastAdd EXCEPT ![ClientHost(c)] = c]
          /\ adds' = [adds EXCEPT ![ClientHost(c)] = Append(@, c)]
          /\ conns' = [conns EXCEPT ![c].pc = "probe"]
       \/ /\ ~r[2]
          /\ conns' = [conns EXCEPT ![c].pc = "reject"]
          /\ UNCHANGED <<connPool, lastAdd, adds>>
    /\ UNCHANGED <<req, xf, ep, fwd, lst, pubs, config>>

\* handleClient: s.httpClient.Do(req), first half: the transport asks the
\* pool for the client connection of the probe's host.
handleClient_probe(c) ==
    /\ conns[c].pc = "probe"
    /\ LET cc == GetClientConn(httpClientPool(connPool), ClientHost(c)) IN
       \/ /\ cc = NoConn
          /\ conns' = [conns EXCEPT ![c].pc = "reject", ![c].probe = "err"]
       \/ /\ cc # NoConn
          /\ conns' = [conns EXCEPT ![c].pc = "probeWait", ![c].via = cc]
    /\ UNCHANGED <<connPool, req, xf, ep, lastAdd, adds, fwd, lst, pubs, config>>

\* A handleClient that does not look at the status of the probe's response.
handleClient_answer_anyStatus(c) ==
    /\ conns[c].pc = "probeWait"
    /\ \E o \in {"ok", "non200", "err"} :
          /\ conns[conns[c].via].closed => o = "err"
          /\ conns' = [conns EXCEPT ![c].probe = o, ![c].via = NoConn,
                                    ![c].pc = IF o # "err" THEN "active" ELSE "reject"]
    /\ UNCHANGED <<connPool, req, xf, ep, lastAdd, adds, fwd, lst, pubs, config>>

\* handleClient: s.httpClient.Do(req), second half: the probe is answered
\* with an error, with 200 or with another status.
handleClient_answer(c) ==
    /\ conns[c].pc = "probeWait"
    /\ \E o \in {"ok", "non200", "err"} :
          /\ conns[conns[c].via].closed => o = "err"
          /\ conns' = [conns EXCEPT ![c].probe = o, ![c].via = NoConn,
                                    ![c].pc = IF o = "ok" THEN "active" ELSE "reject"]
    /\ UNCHANGED <<connPool, req, xf, ep, lastAdd, adds, fwd, lst, pubs, config>>

\* handleClient, reject: conn.Close().
handleClient_rejectClose(c) ==
    /\ conns[c].pc = "reject"
    /\ conns' = [conns EXCEPT ![c].pc = "rejectMark", ![c].closed = TRUE]
    /\ UNCHANGED <<connPool, req, xf, ep, lastAdd, adds, fwd, lst, pubs, config>>

\* A reject path that closes the connection and forgets markHostDead.
handleClient_rejectMark_skip(c) ==
    /\ conns[c].pc = "rejectMark"
    /\ conns' = [conns EXCEPT ![c].pc = "rejected"]
    /\ lastAdd' = IF conns[c].client # 0
                  THEN [lastAdd EXCEPT ![ClientHost(c)] = NoConn] ELSE lastAdd
    /\ UNCHANGED <<connPool, req, xf, ep, adds, fwd, lst, pubs, config>>

\* A reject path that invalidates the entries of every host.
handleClient_rejectMark_all(c) ==
    /\ conns[c].pc = "rejectMark"
    /\ conns' = [conns EXCEPT ![c].pc = "rejected"]
    /\ connPool' = newConnPool
    /\ lastAdd' = [h \in Hosts |-> NoConn]
    /\ UNCHANGED <<req, xf, ep, adds, fwd, lst, pubs, config>>

\* handleClient, reject: if client != nil { s.connPool.markHostDead(client.Host) }.
handleClient_rejectMark(c) ==
    /\ conns[c].pc = "rejectMark"
    /\ conns' = [conns EXCEPT ![c].pc = "rejected"]
    /\ connPool' = IF conns[c].client # 0
                   THEN markHostDead(connPool, ClientHost(c)) ELSE connPool
    /\ lastAdd' = IF conns[c].client # 0
                  THEN [lastAdd EXCEPT ![ClientHost(c)] = NoConn] ELSE lastAdd
    /\ UNCHANGED <<req, xf, ep, adds, fwd, lst, pubs, config>>

handleClient(c) ==
    \/ handleClient_identify(c)
    \/ handleClient_add(c)
    \/ handleClient_probe(c)
    \/ handleClient_answer(c)
    \/ handleClient_rejectClose(c)
    \/ handleClient_rejectMark(c)

\* ------------------------------------------------------ public HTTP requests
ReqNew == [pc |-> "new", host |-> "-", conn |-> NoConn, status |-> 0,
           err |-> "none", writer |-> "none", pipe |-> "none",
           res |-> "none", exp |-> NoConn, hist |-> <<>>]

XfHttp == <<"http", 0>>
EpW == <<"caller", 0>>
EpBody == <<"body", 0>>

\* ServeHTTP entered for a request with some Host header; proxyHTTP creates
\* the pipe and the tunnel request and spawns the task writing r to the pipe.
\* Requests are followed one after another: the handlers of two requests
\* share nothing but the registry, which they only read.
ServeHTTP ==
    /\ req.pc \in {"new", "returned"}
    /\ req.writer # "running"
    /\ \E hp \in RequestHosts :
          \/ /\ ~NewRequestOK(trimPort(hp))
             /\ req' = [ReqNew EXCEPT !.host = trimPort(hp), !.pc = "error",
                                     !.err = "request creation", !.pipe = "open"]
          \/ /\ NewRequestOK(trimPort(hp))
             /\ req' = [ReqNew EXCEPT !.host = trimPort(hp), !.pc = "do",
                                     !.pipe = "open", !.writer = "running"]
    /\ UNCHANGED <<connPool, conns, xf, ep, lastAdd, adds, fwd, lst, pubs, config>>

\* proxyHTTP: s.httpClient.Do(req), first half: the transport asks the pool
\* for the client connection of url(host).
proxyHTTP_Do ==
    /\ req.pc = "do"
    /\ LET h == req.host
           cc == GetClientConn(httpClientPool(connPool), h) IN
       \/ /\ cc = NoConn
          /\ req' = [req EXCEPT !.pc = "error", !.err = "proxy request",
                                  !.res = "notfound",
                                  !.exp = lastAdd[h], !.hist = adds[h]]
       \/ /\ cc # NoConn
          /\ req' = [req EXCEPT !.pc = "roundTrip", !.conn = cc,
                                  !.res = "found",
                                  !.exp = lastAdd[h], !.hist = adds[h]]
    /\ UNCHANGED <<connPool, conns, xf, ep, lastAdd, adds, fwd, lst, pubs, config>>

\* proxyHTTP: s.httpClient.Do(req), second half: the round trip over the
\* resolved transport fails or yields the tunnel response.
proxyHTTP_roundTrip ==
    /\ req.pc = "roundTrip"
    /\ \/ req' = [req EXCEPT !.pc = "error", !.err = "proxy request"]
       \/ /\ ~conns[req.conn].closed
          /\ req' = [req EXCEPT !.pc = "readResponse"]
    /\ UNCHANGED <<connPool, conns, xf, ep, lastAdd, adds, fwd, lst, pubs, config>>

\* proxyHTTP: http.ReadResponse, copyHeader, w.WriteHeader(inner.StatusCode),
\* then transfer("remote to local", w, inner.Body) is entered.
proxyHTTP_readResponse(bodies) ==
    /\ req.pc = "readResponse"
    /\ \/ /\ req' = [req EXCEPT !.pc = "error", !.err = "reading response"]
          /\ UNCHANGED <<xf, ep>>
       \/ \E code \in {200}, body \in bodies :
             /\ req' = [req EXCEPT !.pc = "transfer", !.status = code,
                                     !.conn = NoConn, !.exp = NoConn,
                                     !.hist = <<>>]
             /\ xf' = [xf EXCEPT ![XfHttp] = XfNew(EpW, EpBody, body)]
             /\ UNCHANGED ep
    /\ UNCHANGED <<connPool, conns, lastAdd, adds, fwd, lst, pubs, config>>

\* The task spawned by proxyHTTP: r.Write(cw) ends when the transport has
\* read the request from the pipe or when the pipe is closed; close(done).
proxyHTTP_writer ==
    /\ req.writer = "running"
    /\ \/ req.pipe = "closed"
       \/ req.pc \in {"roundTrip", "readResponse", "transfer"}
    /\ req' = [req EXCEPT !.writer = "done"]
    /\ UNCHANGED <<connPool, conns, xf, ep, lastAdd, adds, fwd, lst, pubs, config>>

\* proxyHTTP: <-done, return nil (the deferred calls close the pipe).
proxyHTTP_return ==
    /\ req.pc = "transfer"
    /\ xf[XfHttp].st = "done"
    /\ req.writer = "done"
    /\ req' = [req EXCEPT !.pc = "returned", !.pipe = "closed"]
    /\ xf' = [xf EXCEPT ![XfHttp] = XfIdle]
    /\ ep' = [ep EXCEPT ![EpW] = EpNew(FALSE, FALSE),
                        ![EpBody] = EpNew(FALSE, FALSE)]
    /\ UNCHANGED <<connPool, conns, lastAdd, adds, fwd, lst, pubs, config>>

\* A ServeHTTP that only logs the error of proxyHTTP.
ServeHTTP_error_logOnly ==
    /\ req.pc = "error"
    /\ req' = [req EXCEPT !.pc = "returned", !.pipe = "closed"]
    /\ UNCHANGED <<connPool, conns, xf, ep, lastAdd, adds, fwd, lst, pubs, config>>

\* proxyHTTP returns an error (the deferred calls close the pipe); ServeHTTP:
\* http.Error(w, err.Error(), http.StatusBadGateway).
ServeHTTP_error ==
    /\ req.pc = "error"
    /\ req' = [req EXCEPT !.pc = "returned", !.pipe = "closed",
                            !.status = 502, !.conn = NoConn,
                            !.exp = NoConn, !.hist = <<>>]
    /\ UNCHANGED <<connPool, conns, xf, ep, lastAdd, adds, fwd, lst, pubs, config>>

proxyHTTP(bodies) ==
    \/ proxyHTTP_Do
    \/ proxyHTTP_roundTrip
    \/ proxyHTTP_readResponse(bodies)
    \/ transfer(XfHttp)
    \/ proxyHTTP_writer
    \/ proxyHTTP_return

\* ------------------------------------------------- public listener connections
PubNew == [pc |-> "new", host |-> "-", res |-> "none", conn |-> NoConn,
           err |-> "none", up |-> "none", pipe |-> "none"]

\* listen: Accept returns a connection, the ControlMessage is built and the
\* goroutine running proxyConn(client.Host, conn, msg) is spawned.
listen(p) ==
    /\ lst["public"].st = "running"
    /\ pubs[p].pc = "new"
    /\ \E cl \in DOMAIN AllowedClients :
          pubs' = [pubs EXCEPT ![p].pc = "start", ![p].host = AllowedClients[cl].Host]
    /\ lst' = Accepted("public")
    /\ UNCHANGED <<connPool, conns, req, xf, ep, lastAdd, adds, fwd, config>>

\* listen: Accept fails, the error is logged, continue.
listen_error ==
    /\ AcceptError("public")
    /\ UNCHANGED <<connPool, conns, req, xf, ep, lastAdd, adds, fwd, pubs, config>>

\* listen: Accept fails on the closed listener, return.
listen_closed ==
    /\ AcceptClosed("public")
    /\ UNCHANGED <<connPool, conns, req, xf, ep, lastAdd, adds, fwd, pubs, config>>

\* --------------------------------------------------------- forwarding proxy
\* Strings are sequences of byte values.
Colon == 58
BasicPrefix == <<66, 97, 115, 105, 99, 32>>     \* "Basic "

HasPrefix(s, prefix) ==
    Len(s) >= Len(prefix) /\ SubSeq(s, 1, Len(prefix)) = prefix

\* The value of a character of the standard base64 alphabet, -1 for others.
B64Val(c) ==
    IF c >= 65 /\ c <= 90 THEN c - 65
    ELSE IF c >= 97 /\ c <= 122 THEN c - 71
    ELSE IF c >= 48 /\ c <= 57 THEN c + 4
    ELSE IF c = 43 THEN 62
    ELSE IF c = 47 THEN 63
    ELSE -1

\* base64.StdEncoding.DecodeString: '\r' and '\n' are skipped, the rest is
\* quanta of four characters, the last one padded with one or two '='.
Base64Decode(s) ==
    LET t == SelectSeq(s, LAMBDA c : c \notin {10, 13})
        n == Len(t)
        nq == n \div 4
        pad == IF n >= 2 /\ t[n] = 61 THEN (IF t[n - 1] = 61 THEN 2 ELSE 1) ELSE 0
        wellFormed ==
            /\ n % 4 = 0
            /\ \A i \in 1..(n - pad) : B64Val(t[i]) >= 0
        v(i) == IF i > n - pad THEN 0 ELSE B64Val(t[i])
        byte(j) ==
            LET q == (j - 1) \div 3
                r == (j - 1) % 3
                a == v(4 * q + 1)
                b == v(4 * q + 2)
                c == v(4 * q + 3)
                d == v(4 * q + 4)
            IN IF r = 0 THEN a * 4 + (b \div 16)
               ELSE IF r = 1 THEN (b % 16) * 16 + (c \div 4)
               ELSE (c % 4) * 64 + d
    IN IF wellFormed
       THEN [ok |-> TRUE, val |-> [j \in 1..(3 * nq - pad) |-> byte(j)]]
       ELSE [ok |-> FALSE, val |-> <<>>]

AuthNone == [user |-> <<>>, pass |-> <<>>, ok |-> FALSE]

\* A parseAuth that splits at the last ':'.
parseAuth_lastColon(a) ==
    LET at == {i \in 1..Len(a) : a[i] = Colon} IN
    IF at = {} THEN AuthNone
    ELSE LET i == CHOOSE x \in at : \A y \in at : x >= y
         IN [user |-> SubSeq(a, 1, i - 1), pass |-> SubSeq(a, i + 1, Len(a)),
             ok |-> TRUE]

\* parseAuth: split at the first ':'.
parseAuth(a) ==
    LET at == {i \in 1..Len(a) : a[i] = Colon} IN
    IF at = {} THEN AuthNone
    ELSE LET i == CHOOSE x \in at : \A y \in at : x <= y
         IN [user |-> SubSeq(a, 1, i - 1), pass |-> SubSeq(a, i + 1, Len(a)),
             ok |-> TRUE]

\* parseBasicProxyAuth: "Basic " + base64(user:pass).
parseBasicProxyAuth(authz) ==
    IF ~HasPrefix(authz, BasicPrefix) THEN AuthNone
    ELSE LET c == Base64Decode(SubSeq(authz, Len(BasicPrefix) + 1, Len(authz)))
         IN IF ~c.ok THEN AuthNone ELSE parseAuth(c.val)

\* NewMultiForwardingProxy(auth, logger): the credentials of the proxy.
NewMultiForwardingProxy(auth) ==
    LET a == parseAuth(auth) IN
    IF a.ok THEN [AuthUser |-> a.user, AuthPass |-> a.pass]
    ELSE [AuthUser |-> <<>>, AuthPass |-> <<>>]

\* The auth option the proxy is constructed with: "", "u", "u:p", "u:".
AuthOptions == { <<>>, <<117>>, <<117, 58, 112>>, <<117, 58>> }

\* Proxy-Authorization headers of requests (Header.Get gives "" when absent):
\* absent, "Basic dTpw" (u:p), "Basic dTpx" (u:q), "Basic dXA=" (up),
\* "Basic dT!w" (not base64), "Bearer dTpw".
AuthzHeaders ==
    { <<>>,
      <<66, 97, 115, 105, 99, 32, 100, 84, 112, 119>>,
      <<66, 97, 115, 105, 99, 32, 100, 84, 112, 120>>,
      <<66, 97, 115, 105, 99, 32, 100, 88, 65, 61>>,
      <<66, 97, 115, 105, 99, 32, 100, 84, 33, 119>>,
      <<66, 101, 97, 114, 101, 114, 32, 100, 84, 112, 119>> }

Protocols == {"http_connect", "http", "tcp"}     \* msg.ForwardedProto

XfUp == <<"up", 0>>         \* transfer(destConn, rr, ...)
XfDown == <<"down", 0>>     \* transfer(flushWriter{w}, destConn, ...)
EpSink == <<"w", 0>>
EpDest == <<"dest", 0>>
EpSource == <<"rr", 0>>

FwdNew(cfg) ==
    [pc |-> "start", AuthUser |-> cfg.AuthUser, AuthPass |-> cfg.AuthPass,
     proto |-> "-", wIsRW |-> FALSE, wIsFlusher |-> FALSE,
     method |-> "-", scheme |-> "-", authz |-> <<>>,
     dial |-> "none", sink |-> <<>>, flushed |-> FALSE, exit |-> "none"]

\* http.Error(w, ..., code) and every other first use of w: a nil
\* ResponseWriter panics, otherwise the status is written to the sink.
WriteStatus(code, exit) ==
    IF fwd.wIsRW
    THEN [fwd EXCEPT !.sink = Append(@, code), !.pc = "returned", !.exit = exit]
    ELSE [fwd EXCEPT !.pc = "panic", !.exit = exit]

\* A Proxy whose switch also lets proto.HTTP through.
ForwardingProxy_Proxy_http ==
    /\ fwd.pc = "start"
    /\ \E pr \in Protocols, rw \in BOOLEAN, fl \in BOOLEAN, cr \in BOOLEAN :
          /\ fl => rw
          /\ \/ /\ pr \notin {"http_connect", "http"}
                /\ fwd' = [fwd EXCEPT !.proto = pr, !.wIsRW = rw, !.wIsFlusher = fl,
                                      !.pc = "returned", !.exit = "unsupported protocol"]
             \/ /\ pr \in {"http_connect", "http"}
                /\ fwd' = [fwd EXCEPT !.proto = pr, !.wIsRW = rw, !.wIsFlusher = fl,
                                      !.pc = "readRequest"]
          /\ ep' = [ep EXCEPT ![EpSource] = EpNew(FALSE, cr)]
    /\ UNCHANGED <<connPool, conns, req, xf, lastAdd, adds, lst, pubs, config>>

\* Proxy: the switch on msg.ForwardedProto and the assertion
\* w.(http.ResponseWriter), whose failure is logged.
ForwardingProxy_Proxy ==
    /\ fwd.pc = "start"
    /\ \E pr \in Protocols, rw \in BOOLEAN, fl \in BOOLEAN, cr \in BOOLEAN :
          /\ fl => rw
          /\ \/ /\ pr # "http_connect"
                /\ fwd' = [fwd EXCEPT !.proto = pr, !.wIsRW = rw, !.wIsFlusher = fl,
                                      !.pc = "returned", !.exit = "unsupported protocol"]
             \/ /\ pr = "http_connect"
                /\ fwd' = [fwd EXCEPT !.proto = pr, !.wIsRW = rw, !.wIsFlusher = fl,
                                      !.pc = "readRequest"]
          /\ ep' = [ep EXCEPT ![EpSource] = EpNew(FALSE, cr)]
    /\ UNCHANGED <<connPool, conns, req, xf, lastAdd, adds, lst, pubs, config>>

\* Proxy: http.ReadRequest(bufio.NewReader(r)), setXForwardedFor, URL.Host.
ForwardingProxy_readRequest ==
    /\ fwd.pc = "readRequest"
    /\ \/ fwd' = [fwd EXCEPT !.pc = "returned", !.exit = "failed to read request"]
       \/ \E m \in {"CONNECT", "GET"}, sc \in {"", "http"}, az \in AuthzHeaders :
             fwd' = [fwd EXCEPT !.pc = "serve", !.method = m, !.scheme = sc,
                                !.authz = az]
    /\ UNCHANGED <<connPool, conns, req, xf, ep, lastAdd, adds, lst, pubs, config>>

\* A ServeHTTP that compares the user name only.
ForwardingProxy_ServeHTTP_userOnly ==
    /\ fwd.pc = "serve"
    /\ LET a == parseBasicProxyAuth(fwd.authz) IN
       \/ /\ fwd.AuthUser # <<>> /\ fwd.AuthPass # <<>>
          /\ ~a.ok \/ a.user # fwd.AuthUser
          /\ fwd' = WriteStatus(407, "proxy auth required")
       \/ /\ ~(/\ fwd.AuthUser # <<>> /\ fwd.AuthPass # <<>>
               /\ ~a.ok \/ a.user # fwd.AuthUser)
          /\ fwd.scheme = "http"
          /\ fwd' = [fwd EXCEPT !.pc = "reverseProxy"]
       \/ /\ ~(/\ fwd.AuthUser # <<>> /\ fwd.AuthPass # <<>>
               /\ ~a.ok \/ a.user # fwd.AuthUser)
          /\ fwd.scheme # "http"
          /\ fwd' = [fwd EXCEPT !.pc = "tunnel"]
    /\ UNCHANGED <<connPool, conns, req, xf, ep, lastAdd, adds, lst, pubs, config>>

\* ServeHTTP of the proxy: the credentials check, then the dispatch on
\* r.URL.Scheme.
ForwardingProxy_ServeHTTP ==
    /\ fwd.pc = "serve"
    /\ LET a == parseBasicProxyAuth(fwd.authz)
           denied == /\ fwd.AuthUser # <<>> /\ fwd.AuthPass # <<>>
                     /\ ~a.ok \/ a.user # fwd.AuthUser \/ a.pass # fwd.AuthPass
       IN
       \/ /\ denied
          /\ fwd' = WriteStatus(407, "proxy auth required")
       \/ /\ ~denied /\ fwd.scheme = "http"
          /\ fwd' = [fwd EXCEPT !.pc = "reverseProxy"]
       \/ /\ ~denied /\ fwd.scheme # "http"
          /\ fwd' = [fwd EXCEPT !.pc = "tunnel"]
    /\ UNCHANGED <<connPool, conns, req, xf, ep, lastAdd, adds, lst, pubs, config>>

\* p.ForwardingHTTPProxy.ServeHTTP(w, r): the reverse proxy answers on w.
ForwardingProxy_reverseProxy ==
    /\ fwd.pc = "reverseProxy"
    /\ fwd' = WriteStatus(0, "reverse proxy")
    /\ UNCHANGED <<connPool, conns, req, xf, ep, lastAdd, adds, lst, pubs, config>>

\* handleTunneling: only CONNECT is accepted.
handleTunneling_method ==
    /\ fwd.pc = "tunnel"
    /\ \/ /\ fwd.method # "CONNECT"
          /\ fwd' = WriteStatus(405, "method not allowed")
       \/ /\ fwd.method = "CONNECT"
          /\ fwd' = [fwd EXCEPT !.pc = "dial"]
    /\ UNCHANGED <<connPool, conns, req, xf, ep, lastAdd, adds, lst, pubs, config>>

\* A handleTunneling that goes on after a failed dial.
handleTunneling_dial_ignoreErr ==
    /\ fwd.pc = "dial"
    /\ \/ /\ fwd' = [fwd EXCEPT !.dial = "fail", !.pc = "respond"]
          /\ ep' = [ep EXCEPT ![EpDest] = EpNew(TRUE, TRUE)]
       \/ /\ fwd' = [fwd EXCEPT !.dial = "ok", !.pc = "respond"]
          /\ ep' = [ep EXCEPT ![EpDest] = EpNew(TRUE, TRUE)]
    /\ UNCHANGED <<connPool, conns, req, xf, lastAdd, adds, lst, pubs, config>>

\* handleTunneling: net.DialTimeout("tcp", r.Host, p.DestDialTimeout); on
\* success the deadlines are set on the TCP connection.
handleTunneling_dial ==
    /\ fwd.pc = "dial"
    /\ \/ /\ fwd' = [WriteStatus(503, "dial failed") EXCEPT !.dial = "fail"]
          /\ UNCHANGED ep
       \/ /\ fwd' = [fwd EXCEPT !.dial = "ok", !.pc = "respond"]
          /\ ep' = [ep EXCEPT ![EpDest] = EpNew(TRUE, TRUE)]
    /\ UNCHANGED <<connPool, conns, req, xf, lastAdd, adds, lst, pubs, config>>

\* handleTunneling: resp.Write(w) of the 200 response.
handleTunneling_respond ==
    /\ fwd.pc = "respond"
    /\ \/ /\ ~fwd.wIsRW
          /\ fwd' = [fwd EXCEPT !.pc = "panic", !.exit = "nil writer"]
       \/ /\ fwd.wIsRW
          /\ fwd' = [fwd EXCEPT !.sink = Append(@, 200), !.pc = "flush"]
    /\ UNCHANGED <<connPool, conns, req, xf, ep, lastAdd, adds, lst, pubs, config>>

\* handleTunneling: w.(http.Flusher).Flush().
handleTunneling_flush ==
    /\ fwd.pc = "flush"
    /\ \/ /\ ~fwd.wIsFlusher
          /\ fwd' = [fwd EXCEPT !.pc = "panic", !.exit = "not a flusher"]
       \/ /\ fwd.wIsFlusher
          /\ fwd' = [fwd EXCEPT !.flushed = TRUE, !.pc = "spawn"]
    /\ UNCHANGED <<connPool, conns, req, xf, ep, lastAdd, adds, lst, pubs, config>>

\* handleTunneling: go transfer(flushWriter{w}, destConn, ...) and the call
\* transfer(destConn, rr, ...); each source will deliver some stream.
handleTunneling_spawn ==
    /\ fwd.pc = "spawn"
    /\ \E down \in Streams(MaxLen), up \in Streams(MaxLen) :
          xf' = [xf EXCEPT ![XfDown] = XfNew(EpSink, EpDest, down),
                           ![XfUp] = XfNew(EpDest, EpSource, up)]
    /\ fwd' = [fwd EXCEPT !.pc = "relay"]
    /\ UNCHANGED <<connPool, conns, req, ep, lastAdd, adds, lst, pubs, config>>

\* A handleTunneling without <-done: it closes as soon as its own transfer
\* has returned.
handleTunneling_wait_own ==
    /\ fwd.pc = "relay"
    /\ xf[XfUp].st = "done"
    /\ fwd' = [fwd EXCEPT !.pc = "closeDest"]
    /\ UNCHANGED <<connPool, conns, req, xf, ep, lastAdd, adds, lst, pubs, config>>

\* handleTunneling: transfer(destConn, rr) has returned and <-done.
handleTunneling_wait ==
    /\ fwd.pc = "relay"
    /\ xf[XfUp].st = "done" /\ xf[XfDown].st = "done"
    /\ fwd' = [fwd EXCEPT !.pc = "closeDest"]
    /\ UNCHANGED <<connPool, conns, req, xf, ep, lastAdd, adds, lst, pubs, config>>

\* handleTunneling: destConn.Close().
handleTunneling_closeDest ==
    /\ fwd.pc = "closeDest"
    /\ ep' = [ep EXCEPT ![EpDest].closed = TRUE]
    /\ fwd' = [fwd EXCEPT !.pc = "closeSource"]
    /\ UNCHANGED <<connPool, conns, req, xf, lastAdd, adds, lst, pubs, config>>

\* handleTunneling: rr.Close().
handleTunneling_closeSource ==
    /\ fwd.pc = "closeSource"
    /\ ep' = [ep EXCEPT ![EpSource].closed = TRUE]
    /\ fwd' = [fwd EXCEPT !.pc = "returned", !.exit = "relayed"]
    /\ UNCHANGED <<connPool, conns, req, xf, lastAdd, adds, lst, pubs, config>>

handleTunneling ==
    \/ handleTunneling_method
    \/ handleTunneling_dial
    \/ handleTunneling_respond
    \/ handleTunneling_flush
    \/ handleTunneling_spawn
    \/ transfer(XfUp)
    \/ transfer(XfDown)
    \/ handleTunneling_wait
    \/ handleTunneling_closeDest
    \/ handleTunneling_closeSource

\* ---- proxyConn(client.Host, conn, msg) for the connection p accepted on a
\* public listener.  Its endpoints: the accepted connection c, the writing
\* end pw of the pipe that is the body of the tunnel request, and resp.Body.
XfLocal(p) == <<"local to remote", p>>
XfRemote(p) == <<"remote to local", p>>
EpC(p) == <<"c", p>>
EpPw(p) == <<"pw", p>>
EpResp(p) == <<"resp.Body", p>>

\* The transport reads the request body from the pipe: from the moment Do has
\* a client connection until the pipe or the response body is closed.
TransportReads(p) ==
    /\ pubs[p].pc \in {"roundTrip", "transfer"}
    /\ pubs[p].pipe = "open"
    /\ ~ep[EpResp(p)].closed

\* defer c.Close(); pr, pw := io.Pipe(); http.NewRequest(PUT, url(host), pr);
\* msg.WriteTo(req.Header); go func() { transfer("local to remote", pw, c) ... }
proxyConn_start(p) ==
    /\ pubs[p].pc = "start"
    /\ \/ /\ ~NewRequestOK(pubs[p].host)
          /\ pubs' = [pubs EXCEPT ![p].pc = "error", ![p].err = "request creation",
                                  ![p].pipe = "open"]
          /\ xf' = xf
       \/ /\ NewRequestOK(pubs[p].host)
          /\ \E data \in Bodies(MaxBody) :
                xf' = [xf EXCEPT ![XfLocal(p)] =
                          [XfNew(EpPw(p), EpC(p), data) EXCEPT !.held = TRUE]]
          /\ pubs' = [pubs EXCEPT ![p].pc = "do", ![p].pipe = "open",
                                  ![p].up = "running"]
    /\ UNCHANGED <<connPool, conns, req, ep, lastAdd, adds, fwd, lst, config>>

\* proxyConn: s.httpClient.Do(req), first half: the transport asks the pool
\* for the client connection of url(host).
proxyConn_Do(p) ==
    /\ pubs[p].pc = "do"
    /\ LET cc == GetClientConn(httpClientPool(connPool), pubs[p].host) IN
       \/ /\ cc = NoConn
          /\ pubs' = [pubs EXCEPT ![p].pc = "error", ![p].err = "proxy request",
                                  ![p].res = "notfound"]
       \/ /\ cc # NoConn
          /\ pubs' = [pubs EXCEPT ![p].pc = "roundTrip", ![p].conn = cc,
                                  ![p].res = "found"]
    /\ UNCHANGED <<connPool, conns, req, xf, ep, lastAdd, adds, fwd, lst, config>>

\* A proxyConn that goes on to the response when Do has returned an error.
proxyConn_roundTrip_ignoreErr(p) ==
    /\ pubs[p].pc = "roundTrip"
    /\ \E data \in Bodies(MaxBody) :
          xf' = [xf EXCEPT ![XfRemote(p)] =
                    [XfNew(EpC(p), EpResp(p), data) EXCEPT !.held = TRUE]]
    /\ \/ pubs' = [pubs EXCEPT ![p].pc = "transfer", ![p].err = "proxy request"]
       \/ /\ ~conns[pubs[p].conn].closed
          /\ pubs' = [pubs EXCEPT ![p].pc = "transfer"]
    /\ UNCHANGED <<connPool, conns, req, ep, lastAdd, adds, fwd, lst, config>>

\* proxyConn: s.httpClient.Do(req), second half: the round trip fails, or the
\* head of the response arrives and transfer("remote to local", c, resp.Body)
\* is entered.
proxyConn_roundTrip(p) ==
    /\ pubs[p].pc = "roundTrip"
    /\ \/ /\ pubs' = [pubs EXCEPT ![p].pc = "error", ![p].err = "proxy request"]
          /\ xf' = xf
       \/ /\ ~conns[pubs[p].conn].closed
          /\ \E data \in Bodies(MaxBody) :
                xf' = [xf EXCEPT ![XfRemote(p)] =
                          [XfNew(EpC(p), EpResp(p), data) EXCEPT !.held = TRUE]]
          /\ pubs' = [pubs EXCEPT ![p].pc = "transfer"]
    /\ UNCHANGED <<connPool, conns, req, ep, lastAdd, adds, fwd, lst, config>>

\* c.Read in "local to remote": bytes or end-of-stream from the public peer
\* while c is open for reading, an error otherwise.
proxyConn_localRead(p) ==
    /\ transferRead(XfLocal(p))
    /\ IF ep[EpC(p)].closed \/ ep[EpC(p)].cr
       THEN xf'[XfLocal(p)].err = "read"
       ELSE TRUE

\* pw.Write in "local to remote": the pipe hands the bytes to the transport
\* when it reads the request body, and fails once the reading end is closed;
\* until then the Write blocks.
proxyConn_localWrite(p) ==
    /\ transferWrite(XfLocal(p))
    /\ \/ TransportReads(p) /\ xf'[XfLocal(p)].err = "none"
       \/ /\ pubs[p].pipe = "closed" \/ ep[EpResp(p)].closed
          /\ xf'[XfLocal(p)].err = "write"
          /\ xf'[XfLocal(p)].wr = xf[XfLocal(p)].wr

\* The task spawned by proxyConn: transfer("local to remote", pw, c), then
\* close(done).
proxyConn_local(p) ==
    \/ proxyConn_localRead(p)
    \/ proxyConn_localWrite(p)
    \/ transferCloseDst(XfLocal(p))
    \/ transferCloseSrc(XfLocal(p))
    \/ /\ pubs[p].up = "running"
       /\ xf[XfLocal(p)].st = "done"
       /\ pubs' = [pubs EXCEPT ![p].up = "done"]
       /\ UNCHANGED <<connPool, conns, req, xf, ep, lastAdd, adds, fwd, lst, config>>

\* resp.Body.Read in "remote to local": bytes or end-of-stream from the
\* tunnel while the response body is open.
proxyConn_remoteRead(p) ==
    /\ transferRead(XfRemote(p))

\* c.Write in "remote to local": fails once c is closed for writing.
proxyConn_remoteWrite(p) ==
    /\ transferWrite(XfRemote(p))
    /\ IF ep[EpC(p)].closed \/ ep[EpC(p)].cw
       THEN /\ xf'[XfRemote(p)].err = "write"
            /\ xf'[XfRemote(p)].wr = xf[XfRemote(p)].wr
       ELSE TRUE

proxyConn_remote(p) ==
    \/ proxyConn_remoteRead(p)
    \/ proxyConn_remoteWrite(p)
    \/ transferCloseDst(XfRemote(p))
    \/ transferCloseSrc(XfRemote(p))

\* proxyConn: <-done; return nil.  The deferred calls close the pipe and c.
proxyConn_return(p) ==
    /\ pubs[p].pc = "transfer"
    /\ xf[XfRemote(p)].st = "done"
    /\ pubs[p].up = "done"
    /\ pubs' = [pubs EXCEPT ![p].pc = "returned", ![p].pipe = "closed"]
    /\ ep' = [ep EXCEPT ![EpC(p)].closed = TRUE]
    /\ UNCHANGED <<connPool, conns, req, xf, lastAdd, adds, fwd, lst, config>>

\* proxyConn returns an error: the deferred calls close the pipe and c, the
\* task spawned by listen logs the error.
proxyConn_error(p) ==
    /\ pubs[p].pc = "error"
    /\ pubs' = [pubs EXCEPT ![p].pc = "returned", ![p].pipe = "closed"]
    /\ ep' = [ep EXCEPT ![EpC(p)].closed = TRUE]
    /\ UNCHANGED <<connPool, conns, req, xf, lastAdd, adds, fwd, lst, config>>

proxyConn(p) ==
    \/ proxyConn_start(p)
    \/ proxyConn_Do(p)
    \/ proxyConn_roundTrip(p)
    \/ proxyConn_local(p)
    \/ proxyConn_remote(p)
    \/ proxyConn_return(p)
    \/ proxyConn_error(p)

\* The peers of the relay.  The public peer ends its stream (c.Read then
\* reports end-of-stream) of its own accord, or once it observes that the
\* server has shut down its side of c.
PublicPeerCloses(p) ==
    /\ xf[XfLocal(p)].st = "copy" /\ xf[XfLocal(p)].held
    /\ xf' = [xf EXCEPT ![XfLocal(p)].held = FALSE]
    /\ UNCHANGED <<connPool, conns, req, ep, lastAdd, adds, fwd, lst, pubs, config>>

PublicPeerSeesEOF(p) == ep[EpC(p)].cw \/ ep[EpC(p)].closed

\* The tunnel peer ends the response of its own accord, or once it observes
\* the end of the request body: the writing end of the pipe was closed.
TunnelPeerCloses(p) ==
    /\ xf[XfRemote(p)].st = "copy" /\ xf[XfRemote(p)].held
    /\ xf' = [xf EXCEPT ![XfRemote(p)].held = FALSE]
    /\ UNCHANGED <<connPool, conns, req, ep, lastAdd, adds, fwd, lst, pubs, config>>

TunnelPeerSeesEOF(p) ==
    ep[EpPw(p)].cw \/ ep[EpPw(p)].closed \/ pubs[p].pipe = "closed"

\* --------------------------------------------------------- keepalive config
\* An option string is a sequence of tokens: the separators ",", "=" and " ",
\* a key word, a digit, a sign or a unit letter.  A key word stands for the
\* run of characters that spells it.
Digits == <<"0", "1", "2", "3", "4", "5", "6", "7", "8", "9">>

DefaultKeepAliveCount == 8

\* &Config{DefaultKeepAliveIdleTime.String(), DefaultKeepAliveCount,
\*         DefaultKeepAliveInterval.String()}: "15m0s", 8, "5s"
NewDefaultConfig ==
    [KeepAliveIdleTime |-> <<"1", "5", "m", "0", "s">>,
     KeepAliveCount    |-> DefaultKeepAliveCount,
     KeepAliveInterval |-> <<"5", "s">>]

\* strings.Split(s, sep): the pieces between the occurrences of sep; a string
\* without sep is its own single piece (the empty string included).
RECURSIVE Split(_, _)
Split(s, sep) ==
    IF \A i \in 1..Len(s) : s[i] # sep THEN <<s>>
    ELSE LET i == CHOOSE k \in 1..Len(s) :
                      s[k] = sep /\ \A j \in 1..(k - 1) : s[j] # sep
         IN <<SubSeq(s, 1, i - 1)>> \o Split(SubSeq(s, i + 1, Len(s)), sep)

TrimSpace_left(s) ==
    LET ink == {i \in 1..Len(s) : s[i] # " "}
    IN IF ink = {} THEN <<>>
       ELSE SubSeq(s, CHOOSE i \in ink : \A j \in ink : i <= j, Len(s))

\* strings.TrimSpace(s): s without its leading and trailing white space
TrimSpace(s) ==
    LET ink == {i \in 1..Len(s) : s[i] # " "}
    IN IF ink = {} THEN <<>>
       ELSE SubSeq(s, CHOOSE i \in ink : \A j \in ink : i <= j,
                      CHOOSE i \in ink : \A j \in ink : i >= j)

IsDigit(ch) == \E i \in 1..Len(Digits) : Digits[i] = ch
DigitVal(ch) == (CHOOSE i \in 1..Len(Digits) : Digits[i] = ch) - 1

RECURSIVE Atoi(_)
Atoi(ds) == IF ds = <<>> THEN 0
            ELSE 10 * Atoi(SubSeq(ds, 1, Len(ds) - 1)) + DigitVal(ds[Len(ds)])

\* strconv.ParseInt(val, 10, 0): an optional sign and one or more decimal
\* digits (the values drawn here stay far below the range of int).
ParseInt(val) ==
    LET signed == val # <<>> /\ val[1] \in {"+", "-"}
        ds     == IF signed THEN Tail(val) ELSE val
    IN IF ds = <<>> \/ \E i \in 1..Len(ds) : ~IsDigit(ds[i])
       THEN [ok |-> FALSE, n |-> 0]
       ELSE [ok |-> TRUE,
             n  |-> IF signed /\ val[1] = "-" THEN 0 - Atoi(ds) ELSE Atoi(ds)]

\* The loop of Config.Set over the options left: it stops at the first error
\* and keeps what the options before it have set.
RECURSIVE SetOpts(_, _)
SetOpts(c, opts) ==
    IF opts = <<>> THEN [c |-> c, err |-> "nil"]
    ELSE LET keyVal == Split(Head(opts), "=")
             key    == TrimSpace(keyVal[1])
             val    == TrimSpace(keyVal[2])
         IN IF Len(keyVal) # 2 THEN [c |-> c, err |-> "format"]
            ELSE IF Len(val) = 0 THEN [c |-> c, err |-> "empty value"]
            ELSE IF key = <<"idle_time">>
                 THEN SetOpts([c EXCEPT !.KeepAliveIdleTime = val], Tail(opts))
            ELSE IF key = <<"count">>
                 THEN IF ~ParseInt(val).ok THEN [c |-> c, err |-> "count"]
                      ELSE SetOpts([c EXCEPT !.KeepAliveCount = ParseInt(val).n],
                                   Tail(opts))
            ELSE IF key = <<"interval">>
                 THEN SetOpts([c EXCEPT !.KeepAliveInterval = val], Tail(opts))
            ELSE [c |-> c, err |-> "unknown option"]

\* func (c *Config) Set(opt string) error
Set(c, opt) == SetOpts(c, Split(opt, ","))

\* The options a caller writes: key=value with white space around the key and
\* the value, and the malformed shapes of TestSetConfigErrors.
OptKeys == {"idle_time", "count", "interval", "balony_prop"}
OptVals == {<<"1", "0", "m">>, <<"1", "0">>, <<"7">>, <<>>}
OptPads == {<<0, 0, 0, 0>>, <<2, 0, 0, 1>>, <<0, 1, 1, 0>>}
NoPad == <<0, 0, 0, 0>>
Options ==
    [shape : {"kv"}, key : OptKeys, val : OptVals, pad : OptPads]
    \cup {[shape |-> "k", key |-> "idle_time", val |-> <<>>, pad |-> NoPad],
          [shape |-> "k", key |-> "balony_prop", val |-> <<>>, pad |-> NoPad],
          [shape |-> "kvv", key |-> "count", val |-> <<"7">>, pad |-> NoPad]}
OptionLists == UNION {[1..n -> Options] : n \in 0..MaxOpts}

Spaces(n) == [i \in 1..n |-> " "]

OptString(o) ==
    IF o.shape = "k" THEN <<o.key>>
    ELSE IF o.shape = "kvv" THEN <<o.key, "=">> \o o.val \o <<"=">> \o o.val
    ELSE Spaces(o.pad[1]) \o <<o.key>> \o Spaces(o.pad[2]) \o <<"=">>
         \o Spaces(o.pad[3]) \o o.val \o Spaces(o.pad[4])

RECURSIVE JoinOpts(_)
JoinOpts(ol) ==
    IF ol = <<>> THEN <<>>
    ELSE IF Len(ol) = 1 THEN OptString(ol[1])
    ELSE OptString(ol[1]) \o <<",">> \o JoinOpts(Tail(ol))

ConfigIdle == [pc |-> "idle"]

\* TestSetConfig: config := NewDefaultConfig(); err := config.Set(options)
TestSetConfig ==
    /\ config.pc = "options"
    /\ LET r == Set(config.c, config.opt)
       IN config' = [config EXCEPT !.pc = "set", !.c = r.c, !.err = r.err]
    /\ UNCHANGED <<connPool, conns, req, xf, ep, lastAdd, adds, fwd, lst, pubs>>

\* ------------------------------------------------------------ specification
FwdIdle == [pc |-> "idle"]

ServerXf == [t \in {XfHttp} |-> XfIdle]
ServerEp == [e \in {EpW, EpBody} |-> EpNew(FALSE, FALSE)]

Init ==
    /\ connPool = newConnPool
    /\ conns = [c \in Conns |-> ConnNew]
    /\ req = ReqNew
    /\ xf = ServerXf
    /\ ep = ServerEp
    /\ lastAdd = [h \in Hosts |-> NoConn]
    /\ adds = [h \in Hosts |-> <<>>]
    /\ lst = LstNew
    /\ pubs = [p \in Pubs |-> PubNew]
    /\ config = ConfigIdle
    /\ fwd = FwdIdle

Next ==
    \/ \E c \in Conns : listenControl(c) \/ handleClient(c)
    \/ ServeHTTP \/ proxyHTTP(Bodies(MaxBody)) \/ ServeHTTP_error

Spec == Init /\ [][Next]_vars

\* The goroutines of the server are scheduled: a handleClient that can take a
\* step of its own takes it, and a probe whose transport connection has been
\* closed returns its error.  Nothing makes a peer answer a probe, a
\* connection arrive or a public request come in.
HandshakeFairness ==
    \A c \in Conns :
        /\ WF_vars(handleClient_identify(c))
        /\ WF_vars(handleClient_add(c))
        /\ WF_vars(handleClient_probe(c))
        /\ WF_vars(handleClient_answer(c) /\ conns[conns[c].via].closed)
        /\ WF_vars(handleClient_rejectClose(c))
        /\ WF_vars(handleClient_rejectMark(c))

FairSpec == Spec /\ HandshakeFairness

\* ---- the public relays of a server whose client is connected
\* A state Spec reaches: connection 1 of client "X" is Active for host "a".
RelayInit ==
    /\ connPool = [newConnPool EXCEPT !["a"] = 1]
    /\ conns = [c \in Conns |->
                  IF c = 1 THEN [ConnNew EXCEPT !.pc = "active", !.id = "X",
                                                !.client = 1, !.probe = "ok"]
                  ELSE ConnNew]
    /\ req = ReqNew
    /\ xf = ServerXf
    /\ ep = ServerEp
    /\ lastAdd = [h \in Hosts |-> IF h = "a" THEN 1 ELSE NoConn]
    /\ adds = [h \in Hosts |-> IF h = "a" THEN <<1>> ELSE <<>>]
    /\ lst = LstNew
    /\ pubs = [p \in Pubs |-> PubNew]
    /\ config = ConfigIdle
    /\ fwd = FwdIdle

RelayNext ==
    ServeHTTP \/ proxyHTTP(Streams(MaxRelay)) \/ ServeHTTP_error

RelaySpec == RelayInit /\ [][RelayNext]_vars

\* ---- the forwarding proxy
ProxyInit ==
    /\ connPool = newConnPool
    /\ conns = [c \in Conns |-> ConnNew]
    /\ req = ReqNew
    /\ xf = [t \in {XfUp, XfDown} |-> XfIdle]
    /\ ep = [e \in {EpSink, EpDest, EpSource} |-> EpNew(FALSE, FALSE)]
    /\ lastAdd = [h \in Hosts |-> NoConn]
    /\ adds = [h \in Hosts |-> <<>>]
    /\ lst = LstNew
    /\ pubs = [p \in Pubs |-> PubNew]
    /\ config = ConfigIdle
    /\ \E auth \in AuthOptions : fwd = FwdNew(NewMultiForwardingProxy(auth))

ProxyNext ==
    \/ ForwardingProxy_Proxy
    \/ ForwardingProxy_readRequest
    \/ ForwardingProxy_ServeHTTP
    \/ ForwardingProxy_reverseProxy
    \/ handleTunneling

ProxySpec == ProxyInit /\ [][ProxyNext]_vars

\* ---- parseBasicProxyAuth on Proxy-Authorization headers
\* The character of the standard base64 alphabet for a value 0..63.
B64Char(v) ==
    IF v < 26 THEN v + 65
    ELSE IF v < 52 THEN v + 71
    ELSE IF v < 62 THEN v - 4
    ELSE IF v = 62 THEN 43
    ELSE 47

\* base64 of a byte string, as a client builds "Basic <base64(user:pass)>":
\* three bytes give four characters, the last group is padded with '='.
Base64Encode(d) ==
    LET n == Len(d)
        at(i) == IF i <= n THEN d[i] ELSE 0
        char(j) ==
            LET g == (j - 1) \div 4
                r == (j - 1) % 4
                have == n - 3 * g
                b1 == at(3 * g + 1)
                b2 == at(3 * g + 2)
                b3 == at(3 * g + 3)
            IN IF r = 0 THEN B64Char(b1 \div 4)
               ELSE IF r = 1 THEN B64Char((b1 % 4) * 16 + (b2 \div 16))
               ELSE IF r = 2 THEN (IF have < 2 THEN 61
                                   ELSE B64Char((b2 % 16) * 4 + (b3 \div 64)))
               ELSE (IF have < 3 THEN 61 ELSE B64Char(b3 % 64))
    IN [j \in 1..(4 * ((n + 2) \div 3)) |-> char(j)]

\* Credentials text: strings over ':', 'u', 'p'.
PlainBytes == {Colon, 117, 112}
PlainStrings == UNION {[1..n -> PlainBytes] : n \in 0..MaxPlain}

\* "Aladdin:open sesame" and its header "Basic QWxhZGRpbjpvcGVuIHNlc2FtZQ==".
AladdinPlain ==
    <<65, 108, 97, 100, 100, 105, 110, 58,
      111, 112, 101, 110, 32, 115, 101, 115, 97, 109, 101>>
AladdinHeader ==
    <<66, 97, 115, 105, 99, 32, 81, 87, 120, 104, 90, 71, 82, 112, 98, 106,
      112, 118, 99, 71, 86, 117, 73, 72, 78, 108, 99, 50, 70, 116, 90, 81,
      61, 61>>

\* The header built from a credentials text d, well-formed or damaged.
AuthzKinds == {"basic", "newline", "noprefix", "bearer", "badchar", "truncated"}

AuthzOf(kind, d) ==
    LET e == Base64Encode(d) IN
    IF kind = "basic" THEN BasicPrefix \o e
    ELSE IF kind = "newline" THEN BasicPrefix \o e \o <<13, 10>>
    ELSE IF kind = "noprefix" THEN e
    ELSE IF kind = "bearer" THEN <<66, 101, 97, 114, 101, 114, 32>> \o e
    ELSE IF kind = "badchar" THEN BasicPrefix \o <<33>> \o SubSeq(e, 2, Len(e))
    ELSE BasicPrefix \o SubSeq(e, 1, Len(e) - 1)

ParseInit ==
    /\ connPool = newConnPool
    /\ conns = [c \in Conns |-> ConnNew]
    /\ req = ReqNew
    /\ xf = ServerXf
    /\ ep = ServerEp
    /\ lastAdd = [h \in Hosts |-> NoConn]
    /\ adds = [h \in Hosts |-> <<>>]
    /\ lst = LstNew
    /\ pubs = [p \in Pubs |-> PubNew]
    /\ config = ConfigIdle
    /\ \/ \E d \in PlainStrings, k \in AuthzKinds :
             /\ k \in {"badchar", "truncated"} => d # <<>>
             /\ fwd = [pc |-> "authz", kind |-> k, plain |-> d,
                       authz |-> AuthzOf(k, d), out |-> AuthNone]
       \/ fwd = [pc |-> "authz", kind |-> "example", plain |-> AladdinPlain,
                 authz |-> AladdinHeader, out |-> AuthNone]

\* user, pass, ok := parseBasicProxyAuth(r.Header.Get("Proxy-Authorization"))
ParseAuthz ==
    /\ fwd.pc = "authz"
    /\ fwd' = [fwd EXCEPT !.pc = "parsed", !.out = parseBasicProxyAuth(fwd.authz)]
    /\ UNCHANGED <<connPool, conns, req, xf, ep, lastAdd, adds, lst, pubs, config>>

ParseNext == ParseAuthz

ParseSpec == ParseInit /\ [][ParseNext]_vars

\* ---- the accept loops
AcceptNext ==
    \/ \E c \in Conns : listenControl(c)
    \/ listenControl_error
    \/ listenControl_closed
    \/ \E p \in Pubs : listen(p)
    \/ listen_error
    \/ listen_closed

AcceptSpec == Init /\ [][AcceptNext]_vars

\* ---- the relays of a server: one connection accepted on a public listener,
\* or the public HTTP requests.  The relays of different connections share
\* nothing but the registry, which they only read, so a behaviour follows one.
\* The states it starts in are states Spec and AcceptSpec reach: client "X"
\* is Active for host "a" or no client is connected; the accepted connection
\* may or may not offer CloseWrite and CloseRead.
ConnXf == [t \in {XfHttp} \cup {XfLocal(p) : p \in Pubs}
                 \cup {XfRemote(p) : p \in Pubs} |-> XfIdle]

ConnEp(hasCW, hasCR) ==
    [e \in {EpW, EpBody} \cup {EpC(p) : p \in Pubs} \cup {EpPw(p) : p \in Pubs}
           \cup {EpResp(p) : p \in Pubs} |->
        IF e[1] = "c" THEN EpNew(hasCW, hasCR) ELSE EpNew(FALSE, FALSE)]

ConnInit ==
    /\ \E connected \in BOOLEAN :
          /\ connPool = IF connected THEN [newConnPool EXCEPT !["a"] = 1]
                        ELSE newConnPool
          /\ conns = [c \in Conns |->
                        IF connected /\ c = 1
                        THEN [ConnNew EXCEPT !.pc = "active", !.id = "X",
                                             !.client = 1, !.probe = "ok"]
                        ELSE ConnNew]
          /\ lastAdd = [h \in Hosts |-> IF connected /\ h = "a" THEN 1 ELSE NoConn]
          /\ adds = [h \in Hosts |-> IF connected /\ h = "a" THEN <<1>> ELSE <<>>]
    /\ req = ReqNew
    /\ xf = ConnXf
    /\ \E hasCW \in BOOLEAN, hasCR \in BOOLEAN : ep = ConnEp(hasCW, hasCR)
    /\ lst = LstNew
    /\ \/ pubs = [p \in Pubs |-> PubNew]
       \/ \E q \in Pubs, cl \in DOMAIN AllowedClients :
             pubs = [p \in Pubs |->
                       IF p = q THEN [PubNew EXCEPT !.pc = "start",
                                                    !.host = AllowedClients[cl].Host]
                       ELSE PubNew]
    /\ config = ConfigIdle
    /\ fwd = FwdIdle

ConnNext ==
    \/ \E p \in Pubs :
          \/ proxyConn(p)
          \/ PublicPeerCloses(p)
          \/ TunnelPeerCloses(p)
    \/ (\A p \in Pubs : pubs[p].pc = "new") /\ ServeHTTP
    \/ proxyHTTP(Bodies(MaxBody))
    \/ ServeHTTP_error

ConnSpec == ConnInit /\ [][ConnNext]_vars

\* The goroutines of a relay are scheduled: proxyConn and its task take the
\* steps they can take, a Read returns what has arrived (bytes, the peer's
\* end-of-stream, or the error of a closed connection) and a Write that can
\* complete completes.  The tunnel answers the request, and each peer ends its
\* stream once it observes end-of-stream from the server.  Nothing makes a
\* peer end its stream before that, and nothing makes an I/O error occur.
RelayFairness ==
    /\ WF_vars(proxyHTTP_Do)
    /\ WF_vars(proxyHTTP_writer)
    /\ WF_vars(transferRead(XfHttp) /\ xf'[XfHttp].err = "none")
    /\ WF_vars(transferWrite(XfHttp) /\ xf'[XfHttp].err = "none")
    /\ WF_vars(transferCloseDst(XfHttp))
    /\ WF_vars(transferCloseSrc(XfHttp))
    /\ WF_vars(proxyHTTP_return)
    /\ WF_vars(ServeHTTP_error)
    /\ \A p \in Pubs :
        /\ WF_vars(proxyConn_start(p))
        /\ WF_vars(proxyConn_Do(p))
        /\ WF_vars(proxyConn_roundTrip(p) /\ pubs'[p].pc = "transfer")
        /\ WF_vars(proxyConn_localRead(p)
                     /\ (xf'[XfLocal(p)].err = "none"
                           \/ ep[EpC(p)].closed \/ ep[EpC(p)].cr))
        /\ WF_vars(proxyConn_localWrite(p))
        /\ WF_vars(transferCloseDst(XfLocal(p)))
        /\ WF_vars(transferCloseSrc(XfLocal(p)))
        /\ WF_vars(proxyConn_local(p) /\ pubs'[p].up = "done")
        /\ WF_vars(proxyConn_remoteRead(p) /\ xf'[XfRemote(p)].err = "none")
        /\ WF_vars(proxyConn_remoteWrite(p)
                     /\ (xf'[XfRemote(p)].err = "none"
                           \/ ep[EpC(p)].closed \/ ep[EpC(p)].cw))
        /\ WF_vars(transferCloseDst(XfRemote(p)))
        /\ WF_vars(transferCloseSrc(XfRemote(p)))
        /\ WF_vars(proxyConn_return(p))
        /\ WF_vars(proxyConn_error(p))
        /\ WF_vars(PublicPeerSeesEOF(p) /\ PublicPeerCloses(p))
        /\ WF_vars(TunnelPeerSeesEOF(p) /\ TunnelPeerCloses(p))

FairConnSpec == ConnSpec /\ RelayFairness

\* ---- Config.Set on its own: the option lists of at most MaxOpts options
SetInit ==
    /\ connPool = newConnPool
    /\ conns = [c \in Conns |-> ConnNew]
    /\ req = ReqNew
    /\ xf = ServerXf
    /\ ep = ServerEp
    /\ lastAdd = [h \in Hosts |-> NoConn]
    /\ adds = [h \in Hosts |-> <<>>]
    /\ lst = LstNew
    /\ pubs = [p \in Pubs |-> PubNew]
    /\ fwd = FwdIdle
    /\ \E ol \in OptionLists :
          config = [pc |-> "options", options |-> ol, opt |-> JoinOpts(ol),
                    c |-> NewDefaultConfig, err |-> "nil"]

SetNext == TestSetConfig

SetSpec == SetInit /\ [][SetNext]_vars

TypeOK ==
    /\ connPool \in [Hosts -> Conns \cup {NoConn}]
    /\ req.status \in {0, 200, 404, 502}

\* ------------------------------------------------------------------ claims
\* A request holds the result of its Resolve from proxyHTTP_Do until
\* proxyHTTP goes on or returns.
Resolved == req.res # "none" /\ req.pc \in {"roundTrip", "error"}

KnownID(id) == \E i \in DOMAIN AllowedClients : AllowedClients[i].ID = id

\* C1: after Add(h, c) succeeded and before any Invalidate(h) or later
\* Add(h, c'), every Resolve(h) of a public relay returns the transport
\* bound to c.
C1_ResolveReturnsLastAdd ==
    Resolved /\ req.exp # NoConn =>
            req.res = "found" /\ req.conn = req.exp

C1_Witness ==
    /\ Resolved /\ req.exp # NoConn
    /\ req.res = "found" /\ req.conn = req.exp

\* C2 as stated: after a second Add(h, c2) every later Resolve(h) returns
\* the transport of c2.
C2_Original ==
    Resolved /\ Len(req.hist) >= 2 =>
            req.res = "found" /\ req.conn = req.hist[Len(req.hist)]

\* C2, amended: the registry holds at most one entry per host key; after a
\* second Add(h, c2), every later Resolve(h) made before any Invalidate(h)
\* or further Add returns the transport of c2, and no later Resolve(h)
\* returns the transport of a connection added before c2.
C2_SecondAddSupersedes ==
    /\ \A h \in Hosts : Cardinality({c \in Conns : connPool[h] = c}) <= 1
    /\ Resolved /\ Len(req.hist) >= 2 =>
            LET n == Len(req.hist) IN
            /\ req.exp = req.hist[n] =>
                  req.res = "found" /\ req.conn = req.hist[n]
            /\ \A i \in 1..(n - 1) : req.conn # req.hist[i]

C2_Witness ==
    /\ Resolved /\ Len(req.hist) = 2
    /\ req.res = "found" /\ req.conn = req.hist[2]

\* C3: Resolve(h) for a host never added, or invalidated and not added
\* again, returns "not found"; it is a step that is always enabled (it never
\* waits for an Add) and it never returns the transport of an invalidated
\* entry.
C3_ResolveNotFound ==
    /\ Resolved /\ req.exp = NoConn =>
          req.res = "notfound" /\ req.conn = NoConn
    /\ req.pc = "do" => ENABLED proxyHTTP_Do

C3_Witness ==
    /\ Resolved /\ req.res = "notfound"
    /\ req.host = "a" /\ req.hist # <<>>

\* C4: when the handshake probe returns an error or a status other than
\* 200, the connection never becomes Active, it is closed, and when
\* handleClient returns the registry holds no entry for the client's host
\* (and never again holds this connection).
C4_ProbeFailed(c) == conns[c].probe \in {"err", "non200"}

C4_HandshakeRejected ==
    /\ [](\A c \in Conns :
            C4_ProbeFailed(c) =>
               /\ conns[c].pc \in {"reject", "rejectMark", "rejected"}
               /\ conns[c].pc \in {"rejectMark", "rejected"} => conns[c].closed
               /\ conns[c].pc = "rejected" =>
                     \A h \in Hosts : connPool[h] # c)
    /\ [][\A c \in Conns :
            (/\ C4_ProbeFailed(c)
             /\ conns[c].pc = "rejectMark" /\ conns'[c].pc = "rejected")
            => connPool'[ClientHost(c)] = NoConn]_vars

C4_Witness ==
    \E c \in Conns :
        /\ conns[c].probe = "non200" /\ conns[c].pc = "rejected"
        /\ conns[c].closed /\ connPool[ClientHost(c)] = NoConn

\* C5: a control connection whose identity cannot be extracted or matches
\* no AllowedClient is closed and never reaches Add, and its steps leave the
\* registry unchanged; every host in the registry was added by a connection
\* whose identity is that of the AllowedClient owning the host.
C5_Unauthenticated(c) ==
    conns[c].pc \notin {"new", "accepted"}
        /\ (conns[c].id = "nocert" \/ ~KnownID(conns[c].id))

C5_OnlyAllowedClients ==
    /\ [](/\ \A c \in Conns :
               C5_Unauthenticated(c) =>
                  /\ conns[c].pc \in {"reject", "rejectMark", "rejected"}
                  /\ conns[c].client = 0
                  /\ conns[c].pc \in {"rejectMark", "rejected"} => conns[c].closed
                  /\ \A h \in Hosts : connPool[h] # c /\ lastAdd[h] # c
          /\ \A h \in Hosts :
               connPool[h] # NoConn =>
                  \E i \in DOMAIN AllowedClients :
                     /\ AllowedClients[i].Host = h
                     /\ AllowedClients[i].ID = conns[connPool[h]].id)
    /\ [][\A c \in Conns :
            C5_Unauthenticated(c) /\ conns'[c] # conns[c] => connPool' = connPool]_vars

C5_Witness ==
    /\ \E c \in Conns : conns[c].id = "Z" /\ conns[c].pc = "rejected" /\ conns[c].closed
    /\ \E c \in Conns : conns[c].id = "X" /\ connPool["a"] = c

\* C6: a public HTTP request whose host has no live registry entry, or whose
\* tunnel request fails, is answered with 502 and ServeHTTP returns; the
\* server goes on serving: the next request can always be taken.
C6_Failed ==
    req.err \in {"request creation", "proxy request", "reading response"}

C7_RelayPrefix ==
    \A t \in DOMAIN xf :
        /\ IsPrefix(xf[t].wr, xf[t].rd)
        /\ IsPrefix(xf[t].rd, xf[t].orig)
        /\ xf[t].eof /\ xf[t].err = "none" =>
              xf[t].wr = xf[t].rd /\ xf[t].wr = xf[t].orig

C7_Witness ==
    /\ req.pc = "transfer" /\ req.status = 200
    /\ xf[XfHttp].eof /\ xf[XfHttp].err = "none"
    /\ xf[XfHttp].orig = <<0, 1>> /\ xf[XfHttp].wr = <<0, 1>>

\* C8: with proxy credentials configured, a request whose
\* Proxy-Authorization header is absent, unparsable or does not match the
\* configured user and password is answered with 407, and no destination is
\* dialed, no 200 is written and no relay is started for it.
C8_Configured == fwd.AuthUser # <<>> /\ fwd.AuthPass # <<>>

C8_BadCredentials ==
    LET a == parseBasicProxyAuth(fwd.authz) IN
    ~a.ok \/ a.user # fwd.AuthUser \/ a.pass # fwd.AuthPass

C8_Served == fwd.pc \notin {"start", "readRequest", "serve"}
                /\ fwd.exit \notin {"unsupported protocol", "failed to read request"}

C9_BothDone == xf[XfUp].st = "done" /\ xf[XfDown].st = "done"

C9_ResponseFirst ==
    (\E t \in DOMAIN xf : xf[t].st # "idle") =>
        fwd.dial = "ok" /\ fwd.sink = <<200>> /\ fwd.flushed

C10_DialFailure ==
    fwd.dial = "fail" =>
        /\ \A i \in 1..Len(fwd.sink) : fwd.sink[i] # 200
        /\ ~fwd.flushed
        /\ \A t \in DOMAIN xf : xf[t].st = "idle"
        /\ fwd.exit = "dial failed"
        /\ fwd.wIsRW => fwd.pc = "returned" /\ fwd.sink = <<503>>

C10_Witness ==
    /\ fwd.dial = "fail" /\ fwd.method = "CONNECT"
    /\ fwd.pc = "returned" /\ fwd.sink = <<503>>

\* C11 as stated: Proxy processes the stream exactly when the protocol is
\* HTTP or HTTP-CONNECT; for any other protocol nothing is read, dialed or
\* written.
C11_Rejected == fwd.exit = "unsupported protocol"

C11_NothingDone ==
    /\ fwd.pc = "returned" /\ fwd.method = "-"
    /\ fwd.dial = "none" /\ fwd.sink = <<>>
    /\ \A t \in DOMAIN xf : xf[t].st = "idle"

C12_HasColon(d) == \E i \in 1..Len(d) : d[i] = Colon

C12_SplitsAtFirstColon(d, out) ==
    /\ out.user \o <<Colon>> \o out.pass = d
    /\ ~C12_HasColon(out.user)

C12_ParseBasicProxyAuth ==
    fwd.pc = "parsed" =>
        /\ fwd.kind \in {"basic", "newline", "example"} =>
              /\ fwd.out.ok <=> C12_HasColon(fwd.plain)
              /\ fwd.out.ok => C12_SplitsAtFirstColon(fwd.plain, fwd.out)
        /\ fwd.kind \in {"noprefix", "bearer", "badchar", "truncated"} =>
              ~fwd.out.ok
        /\ ~fwd.out.ok => fwd.out.user = <<>> /\ fwd.out.pass = <<>>

C12_Witness ==
    /\ fwd.pc = "parsed" /\ fwd.authz = AladdinHeader /\ fwd.out.ok
    /\ fwd.out.user = <<65, 108, 97, 100, 100, 105, 110>>
    /\ fwd.out.pass = <<111, 112, 101, 110, 32, 115, 101, 115, 97, 109, 101>>

\* C14: in the control accept loop and in the public-listener accept loop,
\* after an Accept error that does not indicate a closed listener the loop
\* keeps running and still accepts later connections; after the error of a
\* closed listener the loop has returned and spawns no further handler.
C14_Spawned == Cardinality({c \in Conns : conns[c].pc # "new"})
                  + Cardinality({p \in Pubs : pubs[p].pc # "new"})

C14_AcceptLoops ==
    /\ [](/\ \A l \in DOMAIN lst : lst[l].st = "stopped" <=> lst[l].closed
          /\ lst["control"].errs > 0 /\ ~lst["control"].closed =>
                \A c \in Conns : conns[c].pc = "new" => ENABLED listenControl(c)
          /\ lst["public"].errs > 0 /\ ~lst["public"].closed =>
                \A p \in Pubs : pubs[p].pc = "new" => ENABLED listen(p))
    /\ [][/\ lst["control"].closed => conns' = conns /\ lst'["control"] = lst["control"]
          /\ lst["public"].closed => pubs' = pubs /\ lst'["public"] = lst["public"]]_vars

C14_Witness ==
    /\ lst["control"].late /\ lst["control"].closed
    /\ lst["public"].late /\ lst["public"].closed
    /\ C14_Spawned >= 2

\* The field of Config an option key names.
C15_Field(c, k) ==
    IF k = "idle_time" THEN c.KeepAliveIdleTime
    ELSE IF k = "count" THEN c.KeepAliveCount
    ELSE c.KeepAliveInterval

C15_Numeral == (<<"1", "0">> :> 10) @@ (<<"7">> :> 7)

\* The value an option gives to its key.
C15_Given(o) == IF o.key = "count" THEN C15_Numeral[o.val] ELSE o.val

C15_ValidOption(o) ==
    /\ o.shape = "kv"
    /\ o.key \in {"idle_time", "count", "interval"}
    /\ o.val # <<>>
    /\ o.key = "count" => o.val \in DOMAIN C15_Numeral

\* A non-empty list of valid key=value options has been set.
C15_ValidSet ==
    /\ config.pc = "set"
    /\ config.options # <<>>
    /\ \A i \in 1..Len(config.options) : C15_ValidOption(config.options[i])

C15_Naming(k) == {i \in 1..Len(config.options) : config.options[i].key = k}

C15_Last(S) == CHOOSE i \in S : \A j \in S : j <= i

C15_Permutations(ol) ==
    {[i \in 1..Len(ol) |-> ol[f[i]]] :
        f \in {g \in [1..Len(ol) -> 1..Len(ol)] :
                  \A i, j \in 1..Len(ol) : g[i] = g[j] => i = j}}

C15_Unpadded(ol) == [i \in 1..Len(ol) |-> [ol[i] EXCEPT !.pad = NoPad]]

C15_Result == [c |-> config.c, err |-> config.err]

C15_WhitespaceIndependent ==
    Set(NewDefaultConfig, JoinOpts(C15_Unpadded(config.options))) = C15_Result

C15_OrderIndependent ==
    \A ol \in C15_Permutations(config.options) :
        Set(NewDefaultConfig, JoinOpts(ol)) = C15_Result

\* C15 as stated: Set gives every named key the value of each option naming
\* it, leaves the other keys at their defaults, and its result depends
\* neither on the order of the options nor on the white space around keys and
\* values.
C15_Original ==
    C15_ValidSet =>
        /\ config.err = "nil"
        /\ \A i \in 1..Len(config.options) :
              C15_Field(config.c, config.options[i].key)
                  = C15_Given(config.options[i])
        /\ \A k \in {"idle_time", "count", "interval"} :
              C15_Naming(k) = {} =>
                  C15_Field(config.c, k) = C15_Field(NewDefaultConfig, k)
        /\ C15_WhitespaceIndependent
        /\ C15_OrderIndependent

\* C15: starting from the default Config, Set with a non-empty list of valid
\* key=value options returns no error, gives every named key the value of the
\* last option naming it, leaves every key not named at its default, and its
\* result does not depend on white space around keys and values; it does not
\* depend on the order of the options when no key is named twice.
C15_LastOptionWins ==
    C15_ValidSet =>
        /\ config.err = "nil"
        /\ \A k \in {"idle_time", "count", "interval"} :
              C15_Field(config.c, k)
                  = IF C15_Naming(k) = {} THEN C15_Field(NewDefaultConfig, k)
                    ELSE C15_Given(config.options[C15_Last(C15_Naming(k))])
        /\ C15_WhitespaceIndependent
        /\ (\A k \in {"idle_time", "count", "interval"} :
               Cardinality(C15_Naming(k)) <= 1) => C15_OrderIndependent

\* Two padded options naming different keys were set, the third key kept its
\* default.
C15_Witness ==
    /\ C15_ValidSet
    /\ Len(config.options) = 2
    /\ config.options[1].key = "interval" /\ config.options[2].key = "idle_time"
    /\ config.options[1].pad # NoPad /\ config.options[2].pad # NoPad
    /\ config.c.KeepAliveCount = DefaultKeepAliveCount
    /\ config.c.KeepAliveIdleTime = <<"1", "0", "m">>

\* The handshake of control connection c is under way: its entry is in the
\* registry and its probe has not been answered.
C16_Authenticating(c) == conns[c].pc \in {"probe", "probeWait"}

\* C16: a public request is never routed onto a control connection that is
\* still Authenticating: the connection Resolve hands to a public request has
\* had its probe answered.
C16_RoutedOnlyAfterHandshake ==
    req.pc = "roundTrip" /\ req.conn # NoConn => ~C16_Authenticating(req.conn)

\* C17: a handshake does not wait for the answer to its probe forever: a
\* connection whose probe is outstanding eventually leaves that state (the
\* probe is answered, or the wait ends and the connection is rejected).
C17_ProbeWaitBounded ==
    \A c \in Conns : (conns[c].pc = "probeWait") ~> (conns[c].pc # "probeWait")

\* A direction of the relay of p has finished because its source reached
\* end-of-stream.
C18_DirectionEnded(p) ==
    \/ xf[XfLocal(p)].st = "done" /\ xf[XfLocal(p)].eof
    \/ xf[XfRemote(p)].st = "done" /\ xf[XfRemote(p)].eof

\* C18: once a direction of a public-listener relay has finished on its
\* source's end-of-stream, with each peer ending its stream when it observes
\* end-of-stream, both directions complete and proxyConn returns.
C18_RelayCompletes ==
    \A p \in Pubs : C18_DirectionEnded(p) ~> (pubs[p].pc = "returned")

\* Both copy directions of the relay of p have finished.
C19_BothFinished(p) ==
    xf[XfLocal(p)].st = "done" /\ xf[XfRemote(p)].st = "done"

\* C19: the public connection is fully closed only after both copy
\* directions have finished, unless proxyConn returned an error; when
\* resolving the client's transport failed it is closed with no byte relayed
\* to a tunnel.
C19_ClosedAfterBoth ==
    \A p \in Pubs :
        ep[EpC(p)].closed =>
            \/ C19_BothFinished(p)
            \/ /\ pubs[p].err # "none"
               /\ pubs[p].res = "notfound" => xf[XfLocal(p)].wr = <<>>

\* Response bytes have reached the public caller of the relay of p, or of the
\* public HTTP request.
C20_ResponseBegunConn(p) == xf[XfRemote(p)].wr # <<>>
C20_ResponseBegunHTTP == xf[XfHttp].wr # <<>>

\* C20 as stated: no response byte is delivered to the public caller before
\* the metadata and the whole request have been dispatched to the transport:
\* the task writing the request has finished.
C20_Original ==
    /\ C20_ResponseBegunHTTP => req.writer = "done"
    /\ \A p \in Pubs : C20_ResponseBegunConn(p) => pubs[p].up = "done"

\* C20: no response byte is delivered to the public caller before the
\* request, with the control-message metadata in its header, has been handed
\* to the transport of a resolved client connection and the head of the
\* response has come back; the body of the request may still be being
\* written.
C20_AfterDispatch ==
    /\ C20_ResponseBegunHTTP =>
          /\ req.res = "found" /\ req.err = "none"
          /\ req.pc \in {"transfer", "returned"}
    /\ \A p \in Pubs :
          C20_ResponseBegunConn(p) =>
              /\ pubs[p].res = "found" /\ pubs[p].err = "none"
              /\ pubs[p].pc \in {"transfer", "returned"}

\* A response byte has been written to the public connection while the
\* public-to-tunnel direction is still copying.
C20_Witness ==
    \E p \in Pubs :
        /\ C20_ResponseBegunConn(p)
        /\ pubs[p].up = "running"
        /\ xf[XfLocal(p)].st = "copy"

\* The closing steps of transfer(dst, src) have been performed for t.
C21_ClosingStepsDone(t) ==
    /\ ep[xf[t].dst].hasCW => ep[xf[t].dst].cw
    /\ IF ep[xf[t].src].hasCR THEN ep[xf[t].src].cr ELSE ep[xf[t].src].closed

\* C21: a transfer that has completed, after end-of-stream or after a copy
\* error, has half-closed dst for writing if dst supports it and has
\* half-closed src for reading if src supports it, else closed src; the end
\* of the copy always leads to these steps, the step on dst changes nothing
\* but dst's write side, and the step on src nothing but src.
C21_ClosingSteps ==
    /\ [](\A t \in DOMAIN xf : xf[t].st = "done" => C21_ClosingStepsDone(t))
    /\ [][\A t \in DOMAIN xf :
            /\ xf[t].st = "copy" /\ xf'[t].st # "copy" => xf'[t].st = "closeDst"
            /\ xf[t].st = "closeDst" /\ xf'[t].st # "closeDst" =>
                  /\ xf'[t].st = "closeSrc"
                  /\ ep' = IF ep[xf[t].dst].hasCW
                           THEN [ep EXCEPT ![xf[t].dst].cw = TRUE] ELSE ep
            /\ xf[t].st = "closeSrc" /\ xf'[t].st # "closeSrc" =>
                  /\ xf'[t].st = "done"
                  /\ ep' = IF ep[xf[t].src].hasCR
                           THEN [ep EXCEPT ![xf[t].src].cr = TRUE]
                           ELSE [ep EXCEPT ![xf[t].src].closed = TRUE]]_vars

\* "remote to local" has completed after a copy error: the public connection
\* was half-closed for writing and the response body closed.
C21_Witness ==
    \E p \in Pubs :
        /\ xf[XfRemote(p)].st = "done" /\ xf[XfRemote(p)].err # "none"
        /\ ep[EpC(p)].hasCW /\ ep[EpC(p)].cw /\ ~ep[EpC(p)].closed
        /\ ep[EpResp(p)].closed

\* Control connection c has not added itself to the registry.
C22_NeverAdded(c) ==
    \A h \in Hosts : \A i \in 1..Len(adds[h]) : adds[h][i] # c

\* C22: the steps of the rejection of a control connection that never added
\* itself to the registry leave the registry unchanged.
C22_RejectKeepsRegistry ==
    [][\A c \in Conns :
          /\ conns[c].pc \in {"reject", "rejectMark"}
          /\ conns'[c].pc # conns[c].pc
          /\ C22_NeverAdded(c)
          => connPool' = connPool]_vars

\* A connection of a known client was rejected without having been added
\* (markHostDead ran for its host) while another connection is Active and
\* still registered.
C22_Witness ==
    \E c, d \in Conns :
        /\ conns[c].pc = "rejected" /\ conns[c].client # 0 /\ C22_NeverAdded(c)
        /\ conns[d].pc = "active" /\ connPool[ClientHost(d)] = d

\* C23: the registry never maps a host to a control connection that the
\* server has closed.
C23_NoClosedEntry ==
    \A h \in Hosts : connPool[h] # NoConn => ~conns[connPool[h]].closed

\* C24: when the forwarding proxy entry point has returned, the source has
\* been closed and the destination connection it dialed has been closed.
C24_AllClosedAtReturn ==
    fwd.pc = "returned" =>
        /\ ep[EpSource].closed
        /\ fwd.dial = "ok" => ep[EpDest].closed

\* C26: a Proxy call whose sink is not an http.ResponseWriter stops after
\* logging that: it reads no request from the source, does not invoke
\* ServeHTTP, dials nothing and uses the missing writer for nothing.
C26_StopsWithoutWriter ==
    fwd.proto = "http_connect" /\ ~fwd.wIsRW =>
        /\ fwd.pc \in {"readRequest", "returned"}
        /\ fwd.method = "-" /\ fwd.dial = "none"
        /\ fwd.exit \in {"none", "expected http.ResponseWriter"}

\* The helper task of a relay terminates once the tunnel request has
\* failed, and a relay whose response has been relayed returns.
C25_HTTPWriterEnds == (req.writer = "running") ~> (req.writer = "done")

C25_HTTPReturns ==
    (req.pc = "transfer" /\ xf[XfHttp].st = "done" /\ xf[XfHttp].eof)
        ~> (req.pc = "returned")

C25_ConnTaskEndsOnFailure(p) ==
    (pubs[p].pc = "error") ~>
        (pubs[p].pc = "returned" /\ pubs[p].up \in {"none", "done"})

C25_ConnReturns(p) ==
    (xf[XfRemote(p)].st = "done" /\ xf[XfRemote(p)].eof)
        ~> (pubs[p].pc = "returned")

\* C25: the request-writing task of proxyHTTP and the public-to-stream task
\* of proxyConn terminate, also when the tunnel request fails, and a
\* proxyHTTP or proxyConn whose response has been relayed returns.
C25_TasksTerminate ==
    /\ C25_HTTPWriterEnds
    /\ C25_HTTPReturns
    /\ \A p \in Pubs : C25_ConnTaskEndsOnFailure(p)
    /\ \A p \in Pubs : C25_ConnReturns(p)

====
